---- MODULE Spec2Model ----
(***************************************************************************)
(* State-machine models of the four scripts of mcp-catalog:                *)
(*   scripts/mcp_tool_linter/mcp_tool_linter.py        (Linter)            *)
(*   scripts/upstream_sync/auto_sync_workflow.py       (Fetch, Sync, Save) *)
(*   scripts/validation/get-env-requirements.py        (Env)               *)
(*   scripts/validation/ai-analyze-tools.py            (Analyze)           *)
(* The scripts share no state; each has its own variables and its own      *)
(* specification, under which the variables of the others stay put.        *)
(***************************************************************************)
EXTENDS Integers, Sequences, FiniteSets, TLC

(***************************************************************************)
(*                              State                                      *)
(***************************************************************************)

\* mcp_tool_linter.py: main
VARIABLES
    fail_on,            \* args.fail_on
    fail_on_malicious,  \* args.fail_on_malicious
    openai_format,      \* args.openai_format
    api_key,            \* TRUE iff --openai-api-key or OPENAI_API_KEY is set
    file_list,          \* the files to scan, each with what is on disk
    reports,            \* main's reports list
    worst,              \* main's worst
    lint_printed,       \* what the console summary printed, per report
    lint_pc,            \* where main is
    lint_exit           \* the process's exit code (NoExit while running)

lintvars == <<fail_on, fail_on_malicious, openai_format, api_key, file_list,
              reports, worst, lint_printed, lint_pc, lint_exit>>

\* auto_sync_workflow.py: fetch_modelcontextprotocol_registry_servers
VARIABLES
    registry,       \* the registry's pages: what a 200 reply to each cursor holds
    params_cursor,  \* the page the next request asks for (1: no cursor yet)
    attempts,       \* the function's attempts counter
    slept,          \* the time.sleep() delays so far, in seconds
    best,           \* key -> the entry kept for it
    fetch_log,      \* every request made: its page and the status of the reply
    fetch_pc,       \* "get": about to request; "returned"; "raised"
    fetch_result    \* the returned entries (a set of <<page, position>>)

fetchvars == <<registry, params_cursor, attempts, slept, best, fetch_log,
               fetch_pc, fetch_result>>

\* auto_sync_workflow.py: main
VARIABLES
    \* ---- the world outside the process
    servers,            \* what the two registries return, in main's order
    catalog_entries,    \* what load_y_ids_from_catalog returns
    repo_meta,          \* what GitHub reports for a repository (repo_info)
    sel_file,           \* selected_server.json on disk
    cache_file,         \* ai_categorization_cache.json on disk
    issues,             \* the tracking issues created so far, over all runs
    \* ---- one run of main
    run,                \* the number of this run
    all_ok,             \* every earlier run ended with exit code 0
    sync_pc,            \* where main is
    sync_exit,          \* the process's exit code (NoExit while running)
    existing_servers,   \* main's existing_servers: the names that are keys
    ai_cache,           \* filter_group_x_ai's ai_cache
    cache_misses,       \* filter_group_x_ai's cache_misses
    fi,                 \* the index of the server the filter loop is at
    filtered_servers,   \* filter_group_x_ai's filtered_servers
    non_active,         \* filter_group_x_ai's non_active
    likely_remote,      \* filter_group_x_ai's likely_remote
    ai_log,             \* per judged server: the AI result used, hit or miss
    servers_to_process, \* main's servers_to_process
    ii,                 \* the index of the server the issue loop is at
    io_log              \* this run's file reads and writes and loop steps

worldvars == <<servers, catalog_entries, repo_meta, sel_file, cache_file, issues>>

runvars == <<run, all_ok, sync_pc, sync_exit, existing_servers,
             ai_cache, cache_misses, fi, filtered_servers, non_active,
             likely_remote, ai_log, servers_to_process, ii, io_log>>

syncvars == <<worldvars, runvars>>

\* auto_sync_workflow.py: save_selected_servers, save_ai_cache
VARIABLES
    save_target,   \* the file the call writes
    save_new,      \* the dict passed to the call
    save_prev,     \* what the file held before the call
    disk,          \* what the file holds now
    buffer,        \* chunks written to the file object and not yet on disk
    wpos,          \* number of chunks json.dump has produced
    save_pc,       \* "makedirs", "open", "dump", "returned", "killed", "off"
    save_err       \* the call printed "Error saving ..."

savevars == <<save_target, save_new, save_prev, disk, buffer, wpos, save_pc, save_err>>

\* get-env-requirements.py: main
VARIABLES
    env_argc,      \* len(sys.argv)
    env_pkg,       \* sys.argv[1], a sequence of characters
    env_files,     \* names of the files in the catalog root
    env_environ,   \* keys that os.environ holds with a non-empty value
    env_content,   \* what the YAML file that was opened holds
    env_result,    \* the dict main holds
    env_printed,   \* the JSON went to stdout
    env_pc,        \* "start", "got", "printed", "exited", "off"
    env_exit       \* the exit code

envvars == <<env_argc, env_pkg, env_files, env_environ, env_content,
             env_result, env_printed, env_pc, env_exit>>

\* ai-analyze-tools.py: main
VARIABLES
    an_argc,       \* len(sys.argv)
    HAS_OPENAI,    \* the openai library could be imported
    an_key,        \* OPENAI_API_KEY is set and not empty
    an_api_ok,     \* the chat completion call answers
    old_json,      \* the file at sys.argv[1]
    new_json,      \* the file at sys.argv[2]
    old_tools,     \* main's old_tools
    new_tools,     \* main's new_tools
    an_stdout,     \* what was printed to stdout
    an_stderr,     \* what was printed to stderr
    an_pc,         \* "start", "loaded", "exited", "off"
    an_exit        \* the exit code

anvars == <<an_argc, HAS_OPENAI, an_key, an_api_ok, old_json, new_json,
            old_tools, new_tools, an_stdout, an_stderr, an_pc, an_exit>>

\* What each script leaves alone: the variables of the others
LintFrame == <<fetchvars, syncvars, savevars, envvars, anvars>>
FetchFrame == <<lintvars, syncvars, savevars, envvars, anvars>>
SyncFrame == <<lintvars, fetchvars, savevars, envvars, anvars>>
SaveFrame == <<lintvars, fetchvars, syncvars, envvars, anvars>>
EnvFrame == <<lintvars, fetchvars, syncvars, savevars, anvars>>
AnalyzeFrame == <<lintvars, fetchvars, syncvars, savevars, envvars>>

vars == <<lintvars, fetchvars, syncvars, savevars, envvars, anvars>>

\* The exit code of a process that has not exited
NoExit == -1

(***************************************************************************)
(*                       mcp_tool_linter.py                                *)
(***************************************************************************)

\* Bounds of the linter model
MaxFiles == 2
MaxTools == 2

\* --fail-on choices (argparse, line 192)
FailOnChoices == {"low", "medium", "high", "unknown"}

\* rank = {"info":0,"low":1,"medium":2,"high":3,"unknown":4}
rank == [s \in {"info", "low", "medium", "high", "unknown"} |->
            CASE s = "info" -> 0
              [] s = "low" -> 1
              [] s = "medium" -> 2
              [] s = "high" -> 3
              [] s = "unknown" -> 4]

\* What a file of file_list holds: unreadable / invalid YAML / malformed tool
\* (ok = FALSE: reading or analysing it raises), or ntools well-formed tools.
FileShapes == {[ok |-> FALSE, ntools |-> 0]} \cup
              {[ok |-> TRUE, ntools |-> n] : n \in 0..MaxTools}

\* The risk_level values the LLM may answer; "bogus" is any other value,
\* "absent" a reply without the key.
RiskAnswers == {"low", "medium", "high", "critical", "bogus", "absent"}

\* check_tool_with_gpt5: {"error": ...} on a non-200 reply or an exception,
\* else the JSON object of the reply (is_malicious absent reads as FALSE).
GptResults == {[error |-> TRUE, risk_level |-> "absent", is_malicious |-> FALSE]} \cup
              {[error |-> FALSE, risk_level |-> r, is_malicious |-> m] :
                  r \in RiskAnswers \ {"absent"}, m \in BOOLEAN}

\* severity_map.get(risk_level, "unknown")
severity_map(risk_level) ==
    CASE risk_level = "low" -> "low"
      [] risk_level = "medium" -> "medium"
      [] risk_level = "high" -> "high"
      [] risk_level = "critical" -> "high"
      [] OTHER -> "unknown"

\* analyze_tool_with_gpt: the standardized result for one tool
analyze_tool_with_gpt(gpt_result) ==
    IF gpt_result.error
    THEN [severity |-> "unknown", gpt_analysis |-> gpt_result]
    ELSE [severity |-> severity_map(gpt_result.risk_level), gpt_analysis |-> gpt_result]

\* lint_file, lines 174-184: the overall severity of a file's results
OverallSeverity(results) ==
    LET known == {results[i].severity : i \in DOMAIN results} \ {"unknown"}
        every == {results[i].severity : i \in DOMAIN results}
    IN  IF "high" \in known THEN "high"
        ELSE IF "medium" \in known THEN "medium"
        ELSE IF "low" \in known THEN "low"
        ELSE IF "unknown" \in every THEN "unknown"
        ELSE "info"

\* lint_file: the report of a readable file, given the LLM's answers
lint_file(path, ntools, answers) ==
    IF ntools = 0
    THEN [file |-> path, kind |-> "message", overall_severity |-> "info", tools |-> <<>>]
    ELSE LET results == [i \in 1..ntools |-> analyze_tool_with_gpt(answers[i])]
         IN  [file |-> path, kind |-> "analysis",
              overall_severity |-> OverallSeverity(results), tools |-> results]

\* Mutant of MaxByRank: max(worst, sev) without the key, Python's string order
MaxByRank_NoKey(a, b) ==
    LET lex == [s \in {"info", "low", "medium", "high", "unknown"} |->
                   CASE s = "high" -> 0
                     [] s = "info" -> 1
                     [] s = "low" -> 2
                     [] s = "medium" -> 3
                     [] s = "unknown" -> 4]
    IN  IF lex[b] > lex[a] THEN b ELSE a

\* max(worst, sev, key=lambda s: rank[s]): the first of the greatest
MaxByRank(a, b) == IF rank[b] > rank[a] THEN b ELSE a

\* rep.get("overall_severity", "info")
RepSeverity(rep) ==
    IF rep.kind \in {"message", "analysis"} THEN rep.overall_severity ELSE "info"

\* lines 303-309: the tools flagged malicious, as <<report index, tool index>>
malicious_tools(reps) ==
    {<<i, j>> \in (DOMAIN reps) \X (1..MaxTools + 1) :
        /\ reps[i].kind # "error"
        /\ j \in DOMAIN reps[i].tools
        /\ reps[i].tools[j].gpt_analysis.is_malicious}

\* Mutant of ExitDecision: the severity threshold is tested first
ExitDecision_SeverityFirst(reps, w, fo, fom) ==
    IF rank[w] >= rank[fo] THEN 2
    ELSE IF malicious_tools(reps) # {} /\ fom THEN 3
    ELSE 0

\* lines 311-318: the exit code
ExitDecision(reps, w, fo, fom) ==
    IF malicious_tools(reps) # {} /\ fom THEN 3
    ELSE IF rank[w] >= rank[fo] THEN 2
    ELSE 0

\* lines 257-297: what the console summary prints for one report
SummaryLine(rep) ==
    IF rep.kind = "error" THEN [file |-> rep.file, what |-> "ERROR"]
    ELSE IF rep.kind = "message" THEN [file |-> rep.file, what |-> "No tools found"]
    ELSE [file |-> rep.file, what |-> rep.overall_severity]

LintInit ==
    /\ fail_on \in FailOnChoices
    /\ fail_on_malicious \in BOOLEAN
    /\ openai_format \in BOOLEAN
    /\ api_key \in BOOLEAN
    /\ file_list \in UNION {[1..n -> FileShapes] : n \in 1..MaxFiles}
    /\ reports = <<>>
    /\ worst = "info"
    /\ lint_printed = <<>>
    /\ lint_pc = "check_key"
    /\ lint_exit = NoExit

\* lines 218-223: no key and not --openai-format: exit 1
LintNoKey ==
    /\ lint_pc = "check_key"
    /\ ~openai_format /\ ~api_key
    /\ lint_pc' = "exited"
    /\ lint_exit' = 1
    /\ UNCHANGED <<fail_on, fail_on_malicious, openai_format, api_key, file_list,
                   reports, worst, lint_printed>>
    /\ UNCHANGED LintFrame

\* Mutant of LintKeyOk: the file loop is entered whether or not a key is there
LintKeyOk_NoCheck ==
    /\ lint_pc = "check_key"
    /\ lint_pc' = "files"
    /\ UNCHANGED <<fail_on, fail_on_malicious, openai_format, api_key, file_list,
                   reports, worst, lint_printed, lint_exit>>
    /\ UNCHANGED LintFrame

\* lines 218-223: a key is there, or none is needed: on to the file loop
LintKeyOk ==
    /\ lint_pc = "check_key"
    /\ openai_format \/ api_key
    /\ lint_pc' = "files"
    /\ UNCHANGED <<fail_on, fail_on_malicious, openai_format, api_key, file_list,
                   reports, worst, lint_printed, lint_exit>>
    /\ UNCHANGED LintFrame

\* lines 225-235, one iteration in --openai-format mode
LintFormatFile ==
    /\ lint_pc = "files"
    /\ Len(reports) < Len(file_list)
    /\ openai_format
    /\ LET fp == Len(reports) + 1
           rep == [file |-> fp, kind |-> "format", tools |-> <<>>]
       IN  /\ worst' = MaxByRank(worst, RepSeverity(rep))
           /\ reports' = Append(reports, rep)
    /\ UNCHANGED <<fail_on, fail_on_malicious, openai_format, api_key, file_list,
                   lint_printed, lint_pc, lint_exit>>
    /\ UNCHANGED LintFrame

\* Mutant of LintFileError: a file that failed counts as severity unknown
LintFileError_AsUnknown ==
    /\ lint_pc = "files"
    /\ Len(reports) < Len(file_list)
    /\ ~openai_format
    /\ LET fp == Len(reports) + 1
       IN  /\ ~file_list[fp].ok
           /\ reports' = Append(reports, [file |-> fp, kind |-> "error", tools |-> <<>>])
    /\ worst' = MaxByRank(worst, "unknown")
    /\ UNCHANGED <<fail_on, fail_on_malicious, openai_format, api_key, file_list,
                   lint_printed, lint_pc, lint_exit>>
    /\ UNCHANGED LintFrame

\* lines 225-235, one iteration in analysis mode: lint_file raised
LintFileError ==
    /\ lint_pc = "files"
    /\ Len(reports) < Len(file_list)
    /\ ~openai_format
    /\ LET fp == Len(reports) + 1
       IN  /\ ~file_list[fp].ok
           /\ reports' = Append(reports, [file |-> fp, kind |-> "error", tools |-> <<>>])
    /\ UNCHANGED <<fail_on, fail_on_malicious, openai_format, api_key, file_list,
                   worst, lint_printed, lint_pc, lint_exit>>
    /\ UNCHANGED LintFrame

\* lines 225-235, one iteration in analysis mode: lint_file returned a report
LintFileOk ==
    /\ lint_pc = "files"
    /\ Len(reports) < Len(file_list)
    /\ ~openai_format
    /\ LET fp == Len(reports) + 1
       IN  /\ file_list[fp].ok
           /\ \E answers \in [1..file_list[fp].ntools -> GptResults] :
                LET rep == lint_file(fp, file_list[fp].ntools, answers)
                IN  /\ worst' = MaxByRank(worst, RepSeverity(rep))
                    /\ reports' = Append(reports, rep)
    /\ UNCHANGED <<fail_on, fail_on_malicious, openai_format, api_key, file_list,
                   lint_printed, lint_pc, lint_exit>>
    /\ UNCHANGED LintFrame

\* lines 237-254: --openai-format output; the files are opened again, outside
\* any try, so the first file that cannot be read or converted ends the process
\* with a traceback (exit code 1); otherwise main returns (exit code 0).
LintFormatOutput ==
    /\ lint_pc = "files"
    /\ Len(reports) = Len(file_list)
    /\ openai_format
    /\ LET bad == {i \in DOMAIN reports : ~file_list[reports[i].file].ok}
           upto == IF bad = {} THEN Len(reports)
                   ELSE (CHOOSE i \in bad : \A k \in bad : i <= k) - 1
       IN  /\ lint_printed' = [i \in 1..upto |-> [file |-> reports[i].file, what |-> "format"]]
           /\ lint_exit' = IF bad = {} THEN 0 ELSE 1
    /\ lint_pc' = "exited"
    /\ UNCHANGED <<fail_on, fail_on_malicious, openai_format, api_key, file_list,
                   reports, worst>>
    /\ UNCHANGED LintFrame

\* lines 256-318: console summary, malicious scan, exit code
LintSummaryExit ==
    /\ lint_pc = "files"
    /\ Len(reports) = Len(file_list)
    /\ ~openai_format
    /\ lint_printed' = [i \in DOMAIN reports |-> SummaryLine(reports[i])]
    /\ lint_exit' = ExitDecision(reports, worst, fail_on, fail_on_malicious)
    /\ lint_pc' = "exited"
    /\ UNCHANGED <<fail_on, fail_on_malicious, openai_format, api_key, file_list,
                   reports, worst>>
    /\ UNCHANGED LintFrame

LintNext ==
    \/ LintNoKey
    \/ LintKeyOk
    \/ LintFormatFile
    \/ LintFileError
    \/ LintFileOk
    \/ LintFormatOutput
    \/ LintSummaryExit

\* The linter is not running
LintOff ==
    /\ fail_on = "high"
    /\ fail_on_malicious = TRUE
    /\ openai_format = FALSE
    /\ api_key = FALSE
    /\ file_list = <<>>
    /\ reports = <<>>
    /\ worst = "info"
    /\ lint_printed = <<>>
    /\ lint_pc = "off"
    /\ lint_exit = NoExit

(***************************************************************************)
(*                 Claims about mcp_tool_linter.py                         *)
(***************************************************************************)

\* Some tool of some file report has gpt_analysis.is_malicious true
SomeToolMalicious ==
    \E i \in DOMAIN reports : \E j \in DOMAIN reports[i].tools :
        reports[i].tools[j].gpt_analysis.is_malicious

\* The files that were analysed: their report carries an overall severity
AnalysedReports == {i \in DOMAIN reports : reports[i].kind \in {"message", "analysis"}}

\* Some analysed file has an overall severity at or above level
SomeFileAtOrAbove(level) ==
    \E i \in AnalysedReports : rank[reports[i].overall_severity] >= rank[level]

AnalysisRunExited == lint_pc = "exited" /\ api_key /\ ~openai_format

WorstAnalysedRank ==
    LET ranks == {0} \cup {rank[reports[i].overall_severity] : i \in AnalysedReports}
    IN  CHOOSE r \in ranks : \A q \in ranks : q <= r

\* C11: in the per-file loop of the analysis mode a file whose analysis raises
\* is recorded as an error report and printed, every remaining file is still
\* analysed, and the failed file does not change the worst severity used for
\* the exit code.
C11_PerFileErrors ==
    (api_key /\ ~openai_format) =>
        /\ \A i \in DOMAIN reports :
              /\ reports[i].file = i
              /\ (reports[i].kind = "error") <=> ~file_list[i].ok
              /\ file_list[i].ok => i \in AnalysedReports
        /\ rank[worst] = WorstAnalysedRank
        /\ lint_pc = "exited" =>
              /\ Len(reports) = Len(file_list)
              /\ Len(lint_printed) = Len(file_list)
              /\ \A i \in DOMAIN reports :
                    reports[i].kind = "error" =>
                        lint_printed[i] = [file |-> i, what |-> "ERROR"]
              /\ lint_exit = 2 <=> (lint_exit # 3 /\ WorstAnalysedRank >= rank[fail_on])

\* C11 witness: the first of two files failed, the second was analysed as low,
\* and with --fail-on high the run ended with code 0
C11_Witness ==
    /\ AnalysisRunExited
    /\ Len(reports) = 2
    /\ reports[1].kind = "error"
    /\ reports[2].kind = "analysis"
    /\ reports[2].overall_severity = "low"
    /\ lint_printed[1].what = "ERROR"
    /\ worst = "low"
    /\ fail_on = "high"
    /\ lint_exit = 0

\* The files main has opened so far: one per report of the file loop in the
\* analysis mode, one per file printed in the --openai-format mode
FilesRead ==
    IF openai_format THEN Len(lint_printed) ELSE Len(reports)

\* The requests made to the LLM so far: one per tool of every analysed file
LlmRequests ==
    LET Sum[i \in 0..Len(reports)] ==
            IF i = 0 THEN 0 ELSE Sum[i - 1] + Len(reports[i].tools)
    IN  Sum[Len(reports)]

\* C13: with neither --openai-api-key nor OPENAI_API_KEY and without
\* --openai-format the linter exits with code 1 before any file is read and
\* before any LLM request is made.
C13_NoKeyExit ==
    (~api_key /\ ~openai_format) =>
        /\ FilesRead = 0
        /\ LlmRequests = 0
        /\ lint_printed = <<>>
        /\ lint_pc \in {"check_key", "exited"}
        /\ lint_pc = "exited" => lint_exit = 1

\* C13 witness: a run without a key over two readable files with tools has
\* ended with code 1
C13_Witness ==
    /\ ~api_key /\ ~openai_format
    /\ lint_pc = "exited"
    /\ lint_exit = 1
    /\ Len(file_list) = 2
    /\ \A i \in DOMAIN file_list : file_list[i].ok /\ file_list[i].ntools > 0

(***************************************************************************)
(*   auto_sync_workflow.py: fetch_modelcontextprotocol_registry_servers    *)
(***************************************************************************)

\* Bounds of the fetch model
MaxPages == 2
MaxItems == 2

\* `attempts < 3`, line 172
RetryLimit == 3

\* Server keys (_server_key) of the entries, and the skipped entry without a
\* "server" object
ServerKeys == {"id:1", "name:a"}
NoServer == "none"
\* Versions: 0 stands for a version _parse_ver_str cannot parse (None)
Versions == 0..2
RegistryEntries == [key : ServerKeys, version : Versions] \cup
                   {[key |-> NoServer, version |-> 0]}

\* The HTTP statuses of a reply
Statuses == {200, 404, 503}

\* A finite cursor chain of n pages: page p names page p + 1, the last none (0)
Registries ==
    UNION {[1..n -> UNION {[1..k -> RegistryEntries] : k \in 0..MaxItems}] :
              n \in 1..MaxPages}

\* Mutant of NextCursor: the cursor names the page after the next
NextCursor_Skip(reg, p) == IF p + 1 < Len(reg) THEN p + 2 ELSE 0

\* lines 198-203: the next cursor of page p, 0 when it has none
NextCursor(reg, p) == IF p < Len(reg) THEN p + 1 ELSE 0

\* Mutant of Backoff: a linear delay
Backoff_Linear(n) == 2 * n

\* time.sleep(2 ** attempts), line 174
Backoff(n) == 2 ^ n

\* line 172: r.status_code >= 500 and attempts < 3
ShouldRetry(status, n) == status >= 500 /\ n < RetryLimit

\* Mutant of BestUpdate: an entry of the same version replaces the one kept
BestUpdate_LatestOnTie(b, e, page, pos) ==
    LET new == [ver |-> e.version, page |-> page, pos |-> pos]
    IN  IF e.key = NoServer THEN b
        ELSE IF e.key \notin DOMAIN b THEN b @@ (e.key :> new)
        ELSE IF e.version # 0 /\ (b[e.key].ver = 0 \/ e.version >= b[e.key].ver)
             THEN [b EXCEPT ![e.key] = new]
             ELSE b

\* lines 183-196: one entry of a page against best
BestUpdate(b, e, page, pos) ==
    LET new == [ver |-> e.version, page |-> page, pos |-> pos]
    IN  IF e.key = NoServer THEN b
        ELSE IF e.key \notin DOMAIN b THEN b @@ (e.key :> new)
        ELSE IF e.version # 0 /\ (b[e.key].ver = 0 \/ e.version > b[e.key].ver)
             THEN [b EXCEPT ![e.key] = new]
             ELSE b

\* lines 182-196: the loop over a page's items, from item pos on
RECURSIVE ProcessItems(_, _, _, _)
ProcessItems(b, items, page, pos) ==
    IF pos > Len(items) THEN b
    ELSE ProcessItems(BestUpdate(b, items[pos], page, pos), items, page, pos + 1)

FetchInit ==
    /\ registry \in Registries
    /\ params_cursor = 1
    /\ attempts = 0
    /\ slept = <<>>
    /\ best = <<>>
    /\ fetch_log = <<>>
    /\ fetch_pc = "get"
    /\ fetch_result = {}

\* lines 171-175: a 5xx reply while attempts < 3: sleep and ask again
FetchRetry ==
    /\ fetch_pc = "get"
    /\ \E status \in Statuses :
        /\ ShouldRetry(status, attempts)
        /\ fetch_log' = Append(fetch_log, [cursor |-> params_cursor, status |-> status])
    /\ attempts' = attempts + 1
    /\ slept' = Append(slept, Backoff(attempts + 1))
    /\ UNCHANGED <<registry, params_cursor, best, fetch_pc, fetch_result>>
    /\ UNCHANGED FetchFrame

\* line 176: raise_for_status() on a 4xx reply, or a 5xx one not retried
FetchRaise ==
    /\ fetch_pc = "get"
    /\ \E status \in Statuses :
        /\ status >= 400
        /\ ~ShouldRetry(status, attempts)
        /\ fetch_log' = Append(fetch_log, [cursor |-> params_cursor, status |-> status])
    /\ fetch_pc' = "raised"
    /\ UNCHANGED <<registry, params_cursor, attempts, slept, best, fetch_result>>
    /\ UNCHANGED FetchFrame

\* lines 177-180, 198-199: a 200 reply whose payload has no item list or no
\* metadata object raises
FetchBadPayload ==
    /\ fetch_pc = "get"
    /\ fetch_log' = Append(fetch_log, [cursor |-> params_cursor, status |-> 200])
    /\ fetch_pc' = "raised"
    /\ UNCHANGED <<registry, params_cursor, attempts, slept, best, fetch_result>>
    /\ UNCHANGED FetchFrame

\* lines 177-204: a 200 reply: its items go through best, then the next cursor
\* is followed or the function returns
FetchPage ==
    /\ fetch_pc = "get"
    /\ fetch_log' = Append(fetch_log, [cursor |-> params_cursor, status |-> 200])
    /\ LET b == ProcessItems(best, registry[params_cursor], params_cursor, 1)
           nxt == NextCursor(registry, params_cursor)
       IN  /\ best' = b
           /\ IF nxt = 0
              THEN /\ fetch_pc' = "returned"
                   /\ fetch_result' = {<<b[k].page, b[k].pos>> : k \in DOMAIN b}
                   /\ UNCHANGED params_cursor
              ELSE /\ params_cursor' = nxt
                   /\ UNCHANGED <<fetch_pc, fetch_result>>
    /\ UNCHANGED <<registry, attempts, slept>>
    /\ UNCHANGED FetchFrame

FetchNext ==
    \/ FetchRetry
    \/ FetchRaise
    \/ FetchBadPayload
    \/ FetchPage

\* The fetch is not running
FetchOff ==
    /\ registry = <<>>
    /\ params_cursor = 1
    /\ attempts = 0
    /\ slept = <<>>
    /\ best = <<>>
    /\ fetch_log = <<>>
    /\ fetch_pc = "off"
    /\ fetch_result = {}

(***************************************************************************)
(*                 Claims about the registry fetch                         *)
(***************************************************************************)

\* The requests answered with a status >= 500
FiveXX == {i \in DOMAIN fetch_log : fetch_log[i].status >= 500}

Min(a, b) == IF a < b THEN a ELSE b

\* C3: a reply with status >= 500 is retried against the same page after a
\* delay of 2, 4, then 8 seconds, at most three times; once three retries are
\* used up the next such reply makes the fetch raise instead of returning.
C3_RetryBackoff ==
    /\ \A i \in FiveXX : i < Len(fetch_log) =>
          fetch_log[i + 1].cursor = fetch_log[i].cursor
    /\ slept = SubSeq(<<2, 4, 8>>, 1, Min(Cardinality(FiveXX), 3))
    /\ Cardinality(FiveXX) <= 4
    /\ Cardinality(FiveXX) = 4 => (fetch_pc = "raised" /\ fetch_result = {})
    /\ (fetch_pc = "raised" /\ Len(fetch_log) \in FiveXX) => Cardinality(FiveXX) = 4
    /\ fetch_pc = "returned" => Cardinality(FiveXX) <= 3

\* C3 witness: three retries, on two different pages, and a fourth 5xx reply
\* that ended the fetch
C3_Witness ==
    /\ fetch_pc = "raised"
    /\ Cardinality(FiveXX) = 4
    /\ slept = <<2, 4, 8>>
    /\ \E i, j \in FiveXX : fetch_log[i].cursor # fetch_log[j].cursor

\* The places <<page, position>> of the registry's entries that have key k
PlacesOfKey(k) ==
    {<<p, i>> \in (DOMAIN registry) \X (1..MaxItems) :
        i \in DOMAIN registry[p] /\ registry[p][i].key = k}

\* Place x comes before place y in the order the entries are fetched
FetchedBefore(x, y) == x[1] < y[1] \/ (x[1] = y[1] /\ x[2] < y[2])

\* The first of a non-empty set of places
FirstPlace(places) ==
    CHOOSE x \in places : \A y \in places : x = y \/ FetchedBefore(x, y)

VersionAt(x) == registry[x[1]][x[2]].version

\* The place the claim names for key k: the earliest entry of the greatest
\* parsable version, or the first entry when no version can be parsed
ExpectedPlace(k) ==
    LET all == PlacesOfKey(k)
        parsable == {x \in all : VersionAt(x) # 0}
        top == {x \in parsable : \A y \in parsable : VersionAt(y) <= VersionAt(x)}
    IN  IF parsable = {} THEN FirstPlace(all) ELSE FirstPlace(top)

\* C15: of all fetched entries with the same server key the one returned is
\* the one with the greatest parsable version (the earliest on ties), or the
\* first fetched when none has a parsable version; the result holds exactly
\* one entry per key.
C15_HighestVersion ==
    fetch_pc = "returned" =>
        fetch_result = {ExpectedPlace(k) : k \in {k \in ServerKeys : PlacesOfKey(k) # {}}}

\* C15 witness: a key whose first entry has no parsable version and whose
\* greatest version occurs twice, on two pages; the earlier of the two is
\* returned
C15_Witness ==
    /\ fetch_pc = "returned"
    /\ \E k \in ServerKeys :
          \E x, y, z \in PlacesOfKey(k) :
              /\ FetchedBefore(x, y) /\ FetchedBefore(y, z)
              /\ y[1] < z[1]
              /\ VersionAt(x) = 0
              /\ VersionAt(y) = 2 /\ VersionAt(z) = 2
              /\ y \in fetch_result

\* The successful replies so far, in the order they came
Successful == SelectSeq(fetch_log, LAMBDA e : e.status = 200)

\* The number of successful replies among the first n requests
SuccessfulUpTo(n) == Len(SelectSeq(SubSeq(fetch_log, 1, n), LAMBDA e : e.status = 200))

\* The fetch has ended: it returned or it raised
FetchEnded == fetch_pc \in {"returned", "raised"}

\* What C16 says of every state of a fetch
PagesInOrder ==
    /\ \A i \in DOMAIN fetch_log : fetch_log[i].cursor = SuccessfulUpTo(i - 1) + 1
    /\ \A i \in DOMAIN Successful : Successful[i].cursor = i
    /\ Len(Successful) <= Len(registry)
    /\ fetch_pc = "get" => params_cursor = Len(Successful) + 1
    /\ fetch_pc = "returned" =>
          /\ Len(Successful) = Len(registry)
          /\ fetch_log[Len(fetch_log)].cursor = Len(registry)

\* C16: the fetch requests pages by following the next cursor of each
\* successful response, processes every page of the chain exactly once and in
\* order, stops at the first page without a next cursor, and terminates
\* whenever the registry's cursor chain is finite.
C16_Pagination == []PagesInOrder /\ <>FetchEnded

\* C16 witness: a fetch over two pages returned after a retry on each page
C16_Witness ==
    /\ fetch_pc = "returned"
    /\ Len(registry) = 2
    /\ Len(Successful) = 2
    /\ \E i, j \in DOMAIN fetch_log :
          /\ fetch_log[i].cursor = 1 /\ fetch_log[i].status = 503
          /\ fetch_log[j].cursor = 2 /\ fetch_log[j].status = 503

\* The 5xx replies to requests for page p
FiveXXOfPage(p) ==
    {i \in DOMAIN fetch_log : fetch_log[i].cursor = p /\ fetch_log[i].status >= 500}

\* C17, as the spec states it: the 5xx retry budget applies to each page
\* separately: a fetch gives up on a 5xx reply only when the page it asked for
\* has been retried three times, whatever was spent on earlier pages.
C17_AsStated ==
    (/\ fetch_pc = "raised"
     /\ fetch_log[Len(fetch_log)].status >= 500)
        => Cardinality(FiveXXOfPage(fetch_log[Len(fetch_log)].cursor)) = RetryLimit + 1

(***************************************************************************)
(*        auto_sync_workflow.py: strings and URLs                          *)
(***************************************************************************)

\* Strings are sequences of one-character strings.
\* str.lower() on the characters the model uses
LowerChar(c) ==
    CASE c = "G" -> "g"
      [] c = "H" -> "h"
      [] c = "M" -> "m"
      [] c = "C" -> "c"
      [] c = "P" -> "p"
      [] c = "I" -> "i"
      [] OTHER -> c

Lower(str) == [i \in DOMAIN str |-> LowerChar(str[i])]

\* x in y, for strings
IsSubstring(x, y) ==
    \E i \in 0..(Len(y) - Len(x)) : SubSeq(y, i + 1, i + Len(x)) = x

\* str.split("/")[-1]
LastSegment(str) ==
    LET slashes == {i \in DOMAIN str : str[i] = "/"}
    IN  IF slashes = {} THEN str
        ELSE SubSeq(str, (CHOOSE i \in slashes : \A k \in slashes : k <= i) + 1, Len(str))

\* " ".join(names)
RECURSIVE JoinSpace(_)
JoinSpace(names) ==
    IF names = <<>> THEN <<>>
    ELSE IF Len(names) = 1 THEN names[1]
    ELSE names[1] \o <<" ">> \o JoinSpace(Tail(names))

\* [a-z0-9]: what re.sub(r"[\W_]+", "", s) keeps of a lowercased string
AlNum == {"a", "b", "c", "d", "g", "h", "i", "m", "n", "p", "t", "u", "0", "1"}

RECURSIVE KeepAlNum(_)
KeepAlNum(str) ==
    IF str = <<>> THEN <<>>
    ELSE IF Head(str) \in AlNum THEN <<Head(str)>> \o KeepAlNum(Tail(str))
    ELSE KeepAlNum(Tail(str))

EndsWith(str, tail) ==
    Len(str) >= Len(tail) /\ SubSeq(str, Len(str) - Len(tail) + 1, Len(str)) = tail

\* re.sub(r"(a|b|...)$", "", s): the first alternative that ends s is dropped
RECURSIVE DropTail(_, _)
DropTail(str, tails) ==
    IF tails = <<>> THEN str
    ELSE IF EndsWith(str, Head(tails)) THEN SubSeq(str, 1, Len(str) - Len(Head(tails)))
    ELSE DropTail(str, Tail(tails))

\* _norm, lines 65-73 (None and "" both give "")
norm(str) ==
    LET alnum == KeepAlNum(Lower(str))
        notail == DropTail(alnum, << <<"i", "n", "c">>, <<"c", "o", "r", "p">>,
                                     <<"l", "a", "b", "s">>, <<"l", "l", "c">>,
                                     <<"l", "t", "d">>, <<"h", "q">> >>)
    IN  DropTail(notail, << <<"a", "i">>, <<"a", "p", "p">> >>)

\* A URL as urlparse splits it: scheme (urlparse lowercases it), host as
\* written, port (0: none), path segments, and whether the path ends in "/".
\* NoUrl is the empty string.
NoUrl == [scheme |-> "", host |-> "", port |-> 0, path |-> <<>>, slash |-> FALSE]

\* hostname.lower() on the hosts the model uses
LowerHost(h) == IF h = "GitHub.com" THEN "github.com" ELSE h

\* normalize_url, lines 82-92: lowercased host, default port dropped, trailing
\* slashes stripped
normalize_url(url) ==
    [scheme |-> url.scheme,
     host |-> LowerHost(url.host),
     port |-> IF (url.scheme = "http" /\ url.port = 80) \/
                 (url.scheme = "https" /\ url.port = 443) THEN 0 ELSE url.port,
     path |-> url.path,
     slash |-> FALSE]

\* parse_repo_url, lines 219-230: <<owner, repo>>, or <<>> for (None, None).
\* netloc holds the port as written, so a host with a port is not github.com.
parse_repo_url(url) ==
    IF LowerHost(url.host) # "github.com" \/ url.port # 0 THEN <<>>
    ELSE IF Len(url.path) < 2 THEN <<>>
    ELSE <<url.path[1], url.path[2]>>

(***************************************************************************)
(*        auto_sync_workflow.py: main and filter_group_x_ai                *)
(***************************************************************************)

\* Bounds of the sync model
MaxServers == 2
MaxRuns == 2

\* STAR_MIN and RECENT_DAYS, lines 41-42 (the defaults)
STAR_MIN == 500
RECENT_DAYS == 30

\* Server names
NameHub == <<"a", "/", "H", "u", "b">>
NameMcp == <<"b", "/", "M", "C", "P">>
NameDb == <<"c", "/", "d", "b">>
NameNet == <<"n", "1">>

\* Repository URLs
UrlHub == [scheme |-> "https", host |-> "github.com", port |-> 0,
           path |-> <<"gh", "hub">>, slash |-> FALSE]
UrlSrvCatalog == [scheme |-> "https", host |-> "GitHub.com", port |-> 443,
                  path |-> <<"acme", "srv">>, slash |-> FALSE]
UrlSrv == [scheme |-> "https", host |-> "github.com", port |-> 0,
           path |-> <<"acme", "srv">>, slash |-> TRUE]
UrlNew == [scheme |-> "https", host |-> "github.com", port |-> 0,
           path |-> <<"new", "repo">>, slash |-> FALSE]
UrlNewAlt == [scheme |-> "https", host |-> "GitHub.com", port |-> 0,
              path |-> <<"new", "repo">>, slash |-> TRUE]
UrlLab == [scheme |-> "https", host |-> "gitlab.com", port |-> 0,
           path |-> <<"new", "repo">>, slash |-> FALSE]
UrlSolo == [scheme |-> "https", host |-> "github.com", port |-> 0,
            path |-> <<"solo">>, slash |-> FALSE]

\* The catalog: empty, or two entries
CatalogFull ==
    << [name |-> <<"G", "i", "t", "H", "u", "b">>, repoURL |-> UrlHub],
       [name |-> <<"M", "C", "P">>, repoURL |-> UrlSrvCatalog] >>
Catalogs == {<<>>, CatalogFull}

\* A registry server: name, repository.url, active, whether it has "remotes",
\* and its display_name ("" when it has none)
Server(name, url, active, remotes, display) ==
    [name |-> name, url |-> url, active |-> active, remotes |-> remotes,
     display_name |-> display]

ServerPool ==
    { Server(NameDb, UrlNew, FALSE, FALSE, <<>>),     \* not active
      Server(NameHub, UrlNew, TRUE, FALSE, <<>>),     \* "hub" is in "github mcp"
      Server(NameMcp, UrlNew, TRUE, FALSE, <<>>),     \* last segment "mcp"
      Server(NameDb, UrlSrv, TRUE, FALSE, <<>>),      \* the catalog has the URL
      Server(NameDb, UrlNew, TRUE, FALSE, <<>>),
      Server(NameDb, UrlNewAlt, TRUE, FALSE, <<>>),   \* the same name and repository
      Server(NameNet, UrlNew, TRUE, FALSE, <<>>),
      Server(NameNet, UrlLab, TRUE, TRUE, <<>>),      \* not on GitHub
      Server(NameNet, NoUrl, TRUE, FALSE, <<>>),      \* no repository
      Server(NameNet, UrlSolo, TRUE, TRUE, <<>>),     \* no owner/repo path
      Server(NameNet, UrlNew, TRUE, FALSE,            \* display name "Git-Hub Inc"
             <<"G", "i", "t", "-", "H", "u", "b", " ", "I", "n", "c">>) }

\* repo_info: stars, days since pushed_at, archived
RepoMetas == [stars : {STAR_MIN - 1, STAR_MIN},
              days : {RECENT_DAYS, RECENT_DAYS + 1},
              is_archived : BOOLEAN]

\* The AI judge's answers
Decisions == {"official", "community", "uncertain"}
AiResults == [decision : Decisions, confidence : {5, 9}]

\* A file on disk: absent, present but not loadable, or holding data
NoFile == [exists |-> FALSE, valid |-> FALSE, data |-> {}]
CorruptFile == [exists |-> TRUE, valid |-> FALSE, data |-> {}]
FileOf(d) == [exists |-> TRUE, valid |-> TRUE, data |-> d]

\* Mutant of is_popular_community: stars must exceed STAR_MIN
is_popular_community_Strict(m) ==
    m.stars > STAR_MIN /\ m.days <= RECENT_DAYS /\ ~m.is_archived

\* is_popular_community, lines 507-513
is_popular_community(m) ==
    m.stars >= STAR_MIN /\ m.days <= RECENT_DAYS /\ ~m.is_archived

\* get_cache_key, lines 453-457, for a server with a repository URL
get_cache_key(server) == <<server.name, normalize_url(server.url)>>

\* line 594: url_sets
url_sets(catalog) == {normalize_url(catalog[k].repoURL) : k \in DOMAIN catalog}

\* line 595: one_long_name_str
one_long_name_str(catalog) ==
    Lower(JoinSpace([k \in DOMAIN catalog |-> catalog[k].name]))

\* Mutant of SkipReason: the URL is compared as written
SkipReason_RawUrl(server, existing, catalog) ==
    IF ~server.active THEN "non_active"
    ELSE IF server.name \in existing THEN "state"
    ELSE IF Lower(LastSegment(server.name)) # <<"m", "c", "p">> /\
            IsSubstring(Lower(LastSegment(server.name)), one_long_name_str(catalog))
         THEN "catalog_name"
    ELSE IF server.url # NoUrl /\ server.url \in url_sets(catalog)
         THEN "catalog_url"
    ELSE IF parse_repo_url(server.url) = <<>> THEN "no_repo"
    ELSE "none"

\* lines 598-624: why the loop skips a server before asking GitHub, or "none"
SkipReason(server, existing, catalog) ==
    IF ~server.active THEN "non_active"
    ELSE IF server.name \in existing THEN "state"
    ELSE IF Lower(LastSegment(server.name)) # <<"m", "c", "p">> /\
            IsSubstring(Lower(LastSegment(server.name)), one_long_name_str(catalog))
         THEN "catalog_name"
    ELSE IF server.url # NoUrl /\ normalize_url(server.url) \in url_sets(catalog)
         THEN "catalog_url"
    ELSE IF parse_repo_url(server.url) = <<>> THEN "no_repo"
    ELSE "none"

\* lines 664-675: the kind a judged server is filed under, or "none"
Classify(decision, m) ==
    IF decision = "official" THEN "official"
    ELSE IF decision = "community" /\ is_popular_community(m) THEN "community"
    ELSE "none"

\* check_display_name_overlaps, lines 533-567: the normalized catalog names
catalog_names(catalog) == {norm(catalog[k].name) : k \in DOMAIN catalog}

\* check_display_name_overlaps: the filtered servers that do not overlap
RECURSIVE non_overlapping(_, _, _)
non_overlapping(filtered, pool, catalog) ==
    IF filtered = <<>> THEN <<>>
    ELSE LET server == pool[Head(filtered).idx]
             rest == non_overlapping(Tail(filtered), pool, catalog)
         IN  IF server.display_name # <<>> /\
                norm(server.display_name) \in catalog_names(catalog)
             THEN rest
             ELSE <<Head(filtered)>> \o rest

\* The per-run variables as main starts
RunStart ==
    /\ sync_pc = "project"
    /\ sync_exit = NoExit
    /\ existing_servers = {}
    /\ ai_cache = <<>>
    /\ cache_misses = 0
    /\ fi = 1
    /\ filtered_servers = <<>>
    /\ non_active = <<>>
    /\ likely_remote = <<>>
    /\ ai_log = <<>>
    /\ servers_to_process = <<>>
    /\ ii = 1
    /\ io_log = <<>>

\* The cache files a run may find: none, or one entry for NameDb at UrlNew
InitialCaches ==
    {NoFile} \cup
    {FileOf(get_cache_key(Server(NameDb, UrlNew, TRUE, FALSE, <<>>)) :> r) :
        r \in {[decision |-> "official", confidence |-> 9],
               [decision |-> "community", confidence |-> 5]}}

SyncInit ==
    /\ servers \in UNION {[1..n -> ServerPool] : n \in 1..MaxServers}
    /\ catalog_entries \in Catalogs
    /\ repo_meta \in RepoMetas
    /\ sel_file \in {NoFile, CorruptFile, FileOf({NameMcp})}
    /\ cache_file \in InitialCaches
    /\ issues = <<>>
    /\ run = 1
    /\ all_ok = TRUE
    /\ RunStart

\* An uncaught exception: the process ends with a traceback, exit code 1
Crash ==
    /\ sync_pc' = "exited"
    /\ sync_exit' = 1

\* lines 865-877: get_project_id returned an id; get_issue_node_id follows, and
\* main goes on with or without the index issue's node id
SyncProjectOk ==
    /\ sync_pc = "project"
    /\ sync_pc' = "fetch"
    /\ UNCHANGED <<worldvars, run, all_ok, sync_exit, existing_servers,
                   ai_cache, cache_misses, fi, filtered_servers, non_active,
                   likely_remote, ai_log, servers_to_process, ii, io_log>>
    /\ UNCHANGED SyncFrame

\* lines 865-868: get_project_id returned None: exit(1)
SyncProjectFail ==
    /\ sync_pc = "project"
    /\ sync_pc' = "exited"
    /\ sync_exit' = 1
    /\ UNCHANGED <<worldvars, run, all_ok, existing_servers,
                   ai_cache, cache_misses, fi, filtered_servers, non_active,
                   likely_remote, ai_log, servers_to_process, ii, io_log>>
    /\ UNCHANGED SyncFrame

\* lines 879-897: both registries and the catalog were fetched
SyncFetchOk ==
    /\ sync_pc = "fetch"
    /\ sync_pc' = "load_state"
    /\ UNCHANGED <<worldvars, run, all_ok, sync_exit, existing_servers,
                   ai_cache, cache_misses, fi, filtered_servers, non_active,
                   likely_remote, ai_log, servers_to_process, ii, io_log>>
    /\ UNCHANGED SyncFrame

\* lines 879-897: a registry fetch or the catalog listing raised
SyncFetchRaise ==
    /\ sync_pc = "fetch"
    /\ Crash
    /\ UNCHANGED <<worldvars, run, all_ok, existing_servers,
                   ai_cache, cache_misses, fi, filtered_servers, non_active,
                   likely_remote, ai_log, servers_to_process, ii, io_log>>
    /\ UNCHANGED SyncFrame

\* load_selected_servers, lines 380-393: {} when the file is absent or cannot
\* be loaded
load_selected_servers(file) == IF file.exists /\ file.valid THEN file.data ELSE {}

\* lines 899-902
SyncLoadState ==
    /\ sync_pc = "load_state"
    /\ existing_servers' = load_selected_servers(sel_file)
    /\ io_log' = Append(io_log, IF sel_file.exists THEN "read_selected"
                                 ELSE "no_selected_file")
    /\ sync_pc' = "filter_start"
    /\ UNCHANGED <<worldvars, run, all_ok, sync_exit, 
                   ai_cache, cache_misses, fi, filtered_servers, non_active,
                   likely_remote, ai_log, servers_to_process, ii>>
    /\ UNCHANGED SyncFrame

\* load_ai_cache, lines 428-441
load_ai_cache(file) == IF file.exists /\ file.valid THEN file.data ELSE <<>>

\* filter_group_x_ai, lines 584-595: up to the loop
SyncFilterStart ==
    /\ sync_pc = "filter_start"
    /\ ai_cache' = load_ai_cache(cache_file)
    /\ io_log' = Append(io_log, IF cache_file.exists THEN "read_cache"
                                 ELSE "no_cache_file")
    /\ sync_pc' = "filter"
    /\ UNCHANGED <<worldvars, run, all_ok, sync_exit, existing_servers,
                   cache_misses, fi, filtered_servers, non_active,
                   likely_remote, ai_log, servers_to_process, ii>>
    /\ UNCHANGED SyncFrame

InFilterLoop == sync_pc = "filter" /\ fi <= Len(servers)

\* lines 597-624: an iteration that ends at one of the early `continue`s
SyncFilterSkip ==
    /\ InFilterLoop
    /\ LET server == servers[fi]
           why == SkipReason(server, existing_servers, catalog_entries)
       IN  /\ why # "none"
           /\ non_active' = IF why = "non_active" THEN Append(non_active, fi)
                            ELSE non_active
           /\ likely_remote' = IF why = "no_repo" /\ server.remotes
                               THEN Append(likely_remote, fi) ELSE likely_remote
    /\ fi' = fi + 1
    /\ io_log' = Append(io_log, "filter_server")
    /\ UNCHANGED <<worldvars, run, all_ok, sync_pc, sync_exit, 
                   existing_servers, ai_cache, cache_misses, filtered_servers,
                   ai_log, servers_to_process, ii>>
    /\ UNCHANGED SyncFrame

\* lines 626-630: repo_info raised: printed, and the server is skipped
SyncFilterRepoError ==
    /\ InFilterLoop
    /\ SkipReason(servers[fi], existing_servers, catalog_entries) = "none"
    /\ fi' = fi + 1
    /\ io_log' = Append(io_log, "filter_server")
    /\ UNCHANGED <<worldvars, run, all_ok, sync_pc, sync_exit, 
                   existing_servers, ai_cache, cache_misses, filtered_servers,
                   non_active, likely_remote, ai_log, servers_to_process, ii>>
    /\ UNCHANGED SyncFrame

\* lines 632-675 with the cache key present: the cached decision is used
SyncFilterCacheHit ==
    /\ InFilterLoop
    /\ SkipReason(servers[fi], existing_servers, catalog_entries) = "none"
    /\ LET cache_key == get_cache_key(servers[fi])
       IN  /\ cache_key \in DOMAIN ai_cache
           /\ LET ai_result == ai_cache[cache_key]
                  kind == Classify(ai_result.decision, repo_meta)
              IN  /\ ai_log' = Append(ai_log, [idx |-> fi, hit |-> TRUE,
                                               result |-> ai_result, meta |-> repo_meta])
                  /\ filtered_servers' =
                        IF kind = "none" THEN filtered_servers
                        ELSE Append(filtered_servers, [idx |-> fi, kind |-> kind])
    /\ fi' = fi + 1
    /\ io_log' = Append(io_log, "filter_server")
    /\ UNCHANGED <<worldvars, run, all_ok, sync_pc, sync_exit, 
                   existing_servers, ai_cache, cache_misses, non_active,
                   likely_remote, servers_to_process, ii>>
    /\ UNCHANGED SyncFrame

\* lines 632-675 with the cache key absent: the AI judge is asked and its
\* answer cached
SyncFilterCacheMiss ==
    /\ InFilterLoop
    /\ SkipReason(servers[fi], existing_servers, catalog_entries) = "none"
    /\ LET cache_key == get_cache_key(servers[fi])
       IN  /\ cache_key \notin DOMAIN ai_cache
           /\ \E ai_result \in AiResults :
                LET kind == Classify(ai_result.decision, repo_meta)
                IN  /\ ai_cache' = (cache_key :> ai_result) @@ ai_cache
                    /\ ai_log' = Append(ai_log, [idx |-> fi, hit |-> FALSE,
                                                 result |-> ai_result, meta |-> repo_meta])
                    /\ filtered_servers' =
                          IF kind = "none" THEN filtered_servers
                          ELSE Append(filtered_servers, [idx |-> fi, kind |-> kind])
    /\ cache_misses' = cache_misses + 1
    /\ fi' = fi + 1
    /\ io_log' = Append(io_log, "filter_server")
    /\ UNCHANGED <<worldvars, run, all_ok, sync_pc, sync_exit, 
                   existing_servers, non_active, likely_remote, servers_to_process, ii>>
    /\ UNCHANGED SyncFrame

\* lines 646-647: the AI call raised, or its answer is not the JSON asked for
SyncFilterJudgeRaise ==
    /\ InFilterLoop
    /\ SkipReason(servers[fi], existing_servers, catalog_entries) = "none"
    /\ get_cache_key(servers[fi]) \notin DOMAIN ai_cache
    /\ Crash
    /\ UNCHANGED <<worldvars, run, all_ok, existing_servers,
                   ai_cache, cache_misses, fi, filtered_servers, non_active,
                   likely_remote, ai_log, servers_to_process, ii, io_log>>
    /\ UNCHANGED SyncFrame

\* Mutant of SyncFilterEnd: the cache is saved whether or not there was a miss
SyncFilterEnd_AlwaysSave ==
    /\ sync_pc = "filter"
    /\ fi > Len(servers)
    /\ IF TRUE
       THEN /\ cache_file' = FileOf(ai_cache)
            /\ io_log' = Append(io_log, "write_cache")
       ELSE UNCHANGED <<cache_file, io_log>>
    /\ servers_to_process' = non_overlapping(filtered_servers, servers, catalog_entries)
    /\ sync_pc' = "issues"
    /\ UNCHANGED <<servers, catalog_entries, repo_meta, sel_file, issues,
                   run, all_ok, sync_exit, existing_servers,
                   ai_cache, cache_misses, fi, filtered_servers, non_active,
                   likely_remote, ai_log, ii>>
    /\ UNCHANGED SyncFrame

\* lines 677-692 and 908-913: the cache is saved if there was a miss, then the
\* display-name overlaps are taken out
SyncFilterEnd ==
    /\ sync_pc = "filter"
    /\ fi > Len(servers)
    /\ IF cache_misses > 0
       THEN /\ cache_file' = FileOf(ai_cache)
            /\ io_log' = Append(io_log, "write_cache")
       ELSE UNCHANGED <<cache_file, io_log>>
    /\ servers_to_process' = non_overlapping(filtered_servers, servers, catalog_entries)
    /\ sync_pc' = "issues"
    /\ UNCHANGED <<servers, catalog_entries, repo_meta, sel_file, issues,
                   run, all_ok, sync_exit, existing_servers,
                   ai_cache, cache_misses, fi, filtered_servers, non_active,
                   likely_remote, ai_log, ii>>
    /\ UNCHANGED SyncFrame

InIssueLoop == sync_pc = "issues" /\ ii <= Len(servers_to_process)

\* The issue create_issue_for_server opens for servers_to_process[ii]
NewIssue == [name |-> servers[servers_to_process[ii].idx].name, run |-> run,
             idx |-> servers_to_process[ii].idx]

\* add_server_to_state, lines 405-420
add_server_to_state(server, existing) ==
    IF server.name = <<>> THEN existing ELSE existing \cup {server.name}

\* Mutant of SyncCreateIssue: the state file is saved after every issue
SyncCreateIssue_SaveEach ==
    /\ InIssueLoop
    /\ issues' = Append(issues, NewIssue)
    /\ existing_servers' =
          add_server_to_state(servers[servers_to_process[ii].idx], existing_servers)
    /\ sel_file' = FileOf(existing_servers')
    /\ ii' = ii + 1
    /\ io_log' = io_log \o <<"create_issue", "write_selected">>
    /\ UNCHANGED <<servers, catalog_entries, repo_meta, cache_file,
                   run, all_ok, sync_pc, sync_exit,
                   ai_cache, cache_misses, fi, filtered_servers, non_active,
                   likely_remote, ai_log, servers_to_process>>
    /\ UNCHANGED SyncFrame

\* lines 918-927: one iteration of the issue loop
SyncCreateIssue ==
    /\ InIssueLoop
    /\ issues' = Append(issues, NewIssue)
    /\ existing_servers' =
          add_server_to_state(servers[servers_to_process[ii].idx], existing_servers)
    /\ ii' = ii + 1
    /\ io_log' = Append(io_log, "create_issue")
    /\ UNCHANGED <<servers, catalog_entries, repo_meta, sel_file, cache_file,
                   run, all_ok, sync_pc, sync_exit, 
                   ai_cache, cache_misses, fi, filtered_servers, non_active,
                   likely_remote, ai_log, servers_to_process>>
    /\ UNCHANGED SyncFrame

\* lines 360-366: the POST failed, raise_for_status() raises: no issue
SyncCreateIssueRaise ==
    /\ InIssueLoop
    /\ Crash
    /\ UNCHANGED <<worldvars, run, all_ok, existing_servers,
                   ai_cache, cache_misses, fi, filtered_servers, non_active,
                   likely_remote, ai_log, servers_to_process, ii, io_log>>
    /\ UNCHANGED SyncFrame

\* lines 919-924: the issue was created, then the project or sub-issue call
\* raised (requests.post, response.json())
SyncAfterIssueRaise ==
    /\ InIssueLoop
    /\ issues' = Append(issues, NewIssue)
    /\ io_log' = Append(io_log, "create_issue")
    /\ Crash
    /\ UNCHANGED <<servers, catalog_entries, repo_meta, sel_file, cache_file,
                   run, all_ok, existing_servers,
                   ai_cache, cache_misses, fi, filtered_servers, non_active,
                   likely_remote, ai_log, servers_to_process, ii>>
    /\ UNCHANGED SyncFrame

\* lines 929-938: save_selected_servers, the summary, and the end of main
SyncSaveState ==
    /\ sync_pc = "issues"
    /\ ii > Len(servers_to_process)
    /\ sel_file' = FileOf(existing_servers)
    /\ io_log' = Append(io_log, "write_selected")
    /\ sync_pc' = "exited"
    /\ sync_exit' = 0
    /\ UNCHANGED <<servers, catalog_entries, repo_meta, cache_file, issues,
                   run, all_ok, existing_servers,
                   ai_cache, cache_misses, fi, filtered_servers, non_active,
                   likely_remote, ai_log, servers_to_process, ii>>
    /\ UNCHANGED SyncFrame

\* The workflow is started again: the registries and the catalog are as
\* before, the two files and the issues are what the earlier runs left
SyncNextRun ==
    /\ sync_pc = "exited"
    /\ run < MaxRuns
    /\ run' = run + 1
    /\ all_ok' = (all_ok /\ sync_exit = 0)
    /\ sync_pc' = "project"
    /\ sync_exit' = NoExit
    /\ existing_servers' = {}
    /\ ai_cache' = <<>>
    /\ cache_misses' = 0
    /\ fi' = 1
    /\ filtered_servers' = <<>>
    /\ non_active' = <<>>
    /\ likely_remote' = <<>>
    /\ ai_log' = <<>>
    /\ servers_to_process' = <<>>
    /\ ii' = 1
    /\ io_log' = <<>>
    /\ UNCHANGED worldvars
    /\ UNCHANGED SyncFrame

\* One run
SyncNext ==
    \/ SyncProjectOk
    \/ SyncProjectFail
    \/ SyncFetchOk
    \/ SyncFetchRaise
    \/ SyncLoadState
    \/ SyncFilterStart
    \/ SyncFilterSkip
    \/ SyncFilterRepoError
    \/ SyncFilterCacheHit
    \/ SyncFilterCacheMiss
    \/ SyncFilterJudgeRaise
    \/ SyncFilterEnd
    \/ SyncCreateIssue
    \/ SyncCreateIssueRaise
    \/ SyncAfterIssueRaise
    \/ SyncSaveState

\* Runs one after the other
SyncRunsNext ==
    \/ SyncNext
    \/ SyncNextRun

\* The runs start from a catalog, a repository and files that let servers through
SyncRunsInit ==
    /\ servers \in UNION {[1..n -> ServerPool] : n \in 1..MaxServers}
    /\ catalog_entries \in Catalogs
    /\ repo_meta = [stars |-> STAR_MIN, days |-> RECENT_DAYS, is_archived |-> FALSE]
    /\ sel_file \in {NoFile, FileOf({NameMcp})}
    /\ cache_file = NoFile
    /\ issues = <<>>
    /\ run = 1
    /\ all_ok = TRUE
    /\ RunStart

\* The sync workflow is not running
SyncOff ==
    /\ servers = <<>>
    /\ catalog_entries = <<>>
    /\ repo_meta = [stars |-> 0, days |-> 0, is_archived |-> FALSE]
    /\ sel_file = NoFile
    /\ cache_file = NoFile
    /\ issues = <<>>
    /\ run = 0
    /\ all_ok = TRUE
    /\ sync_pc = "off"
    /\ sync_exit = NoExit
    /\ existing_servers = {}
    /\ ai_cache = <<>>
    /\ cache_misses = 0
    /\ fi = 1
    /\ filtered_servers = <<>>
    /\ non_active = <<>>
    /\ likely_remote = <<>>
    /\ ai_log = <<>>
    /\ servers_to_process = <<>>
    /\ ii = 1
    /\ io_log = <<>>

(***************************************************************************)
(*                 Claims about the sync workflow                          *)
(***************************************************************************)

\* How often an event is in this run's log
CountEv(ev) == Cardinality({k \in DOMAIN io_log : io_log[k] = ev})

\* The places of an event in this run's log
Places(ev) == {k \in DOMAIN io_log : io_log[k] = ev}

FileWrites == Places("write_selected") \cup Places("write_cache")
FilterSteps == Places("filter_server")
IssueSteps == Places("create_issue")

IssuesNamed(name) == {k \in DOMAIN issues : issues[k].name = name}

\* C6: no issue is created for a server whose name is a key of the state
\* loaded at the start of the run; and over runs that each complete
\* successfully against an unchanged registry every server name gets at most
\* one issue.
C6_AsStated ==
    /\ sync_pc \in {"filter", "issues"} =>
          \A k \in DOMAIN issues :
              issues[k].run = run => issues[k].name \notin load_selected_servers(sel_file)
    /\ (all_ok /\ sync_pc = "exited" /\ sync_exit = 0) =>
          \A k \in DOMAIN issues : Cardinality(IssuesNamed(issues[k].name)) <= 1

\* The catalog has an entry whose normalised repoURL is the server's
UrlInCatalog(server) ==
    /\ server.url # NoUrl
    /\ \E k \in DOMAIN catalog_entries :
          normalize_url(catalog_entries[k].repoURL) = normalize_url(server.url)

\* The last "/"-segment of the server's name, lowercased, is not "mcp" and
\* occurs in the space-joined lowercased catalog names
NameInCatalog(server) ==
    LET name == Lower(LastSegment(server.name))
        joined == Lower(JoinSpace([k \in DOMAIN catalog_entries |->
                                      catalog_entries[k].name]))
    IN  name # <<"m", "c", "p">> /\ IsSubstring(name, joined)

\* C7: no issue is created for an active registry server whose normalised
\* repository URL is that of a catalog entry, nor for one whose name's last
\* segment (lowercased, not "mcp") occurs in the joined catalog names.
C7_CatalogDedup ==
    \A k \in DOMAIN issues :
        /\ ~UrlInCatalog(servers[issues[k].idx])
        /\ ~NameInCatalog(servers[issues[k].idx])

\* C7 witness: a completed run that created an issue and none for a server
\* whose URL matches a catalog entry only after normalisation, nor for one
\* whose name is in the catalog names
C7_Witness ==
    /\ sync_exit = 0
    /\ Len(issues) = 1
    /\ \E i \in DOMAIN servers :
          /\ servers[i].active
          /\ servers[i].name \notin load_selected_servers(sel_file)
          /\ \/ /\ UrlInCatalog(servers[i])
                /\ ~NameInCatalog(servers[i])
                /\ \A k \in DOMAIN catalog_entries : catalog_entries[k].repoURL # servers[i].url
             \/ NameInCatalog(servers[i])

\* The servers filed in filtered_servers
FilteredIdx == {filtered_servers[k].idx : k \in DOMAIN filtered_servers}

\* C8: a server that passed deduplication and has a GitHub repository is in
\* filtered_servers iff its AI decision is official, or community with
\* stars >= STAR_MIN, pushed within RECENT_DAYS days and not archived; a
\* server with another decision gets no issue.
C8_ClassificationGate ==
    /\ \A k \in DOMAIN ai_log :
          (ai_log[k].idx \in FilteredIdx) <=>
              \/ ai_log[k].result.decision = "official"
              \/ /\ ai_log[k].result.decision = "community"
                 /\ ai_log[k].meta.stars >= STAR_MIN
                 /\ ai_log[k].meta.days <= RECENT_DAYS
                 /\ ~ai_log[k].meta.is_archived
    /\ \A i \in FilteredIdx : \E k \in DOMAIN ai_log : ai_log[k].idx = i
    /\ \A k \in DOMAIN issues :
          \E j \in DOMAIN ai_log :
              /\ ai_log[j].idx = issues[k].idx
              /\ ai_log[j].result.decision \in {"official", "community"}

\* C8 witness: a completed run that filed a community server whose repository
\* is exactly at both thresholds, and left out one judged uncertain
C8_Witness ==
    /\ sync_exit = 0
    /\ repo_meta = [stars |-> STAR_MIN, days |-> RECENT_DAYS, is_archived |-> FALSE]
    /\ \E k \in DOMAIN filtered_servers : filtered_servers[k].kind = "community"
    /\ \E k \in DOMAIN ai_log :
          ai_log[k].result.decision = "uncertain" /\ ai_log[k].idx \notin FilteredIdx
    /\ Len(issues) = 1

\* C18, as the spec states it: when the process has ended, every issue
\* created in the run is recorded in selected_server.json, also when a later
\* issue creation or project / sub-issue call raised.
C18_AsStated ==
    sync_pc = "exited" =>
        \A k \in DOMAIN issues :
            issues[k].run = run => issues[k].name \in load_selected_servers(sel_file)

\* The issues created in the current run for the server name n
IssuesOfRunNamed(n) ==
    {k \in DOMAIN issues : issues[k].run = run /\ issues[k].name = n}

\* C19, as the spec states it: within one run at most one issue is created
\* per server name, also when the name comes from both registries or under
\* two registry keys.
C19_AsStated ==
    \A k \in DOMAIN issues : Cardinality(IssuesOfRunNamed(issues[k].name)) <= 1

\* The cache key of the server of the k-th cache lookup of the run
LookupKey(k) == get_cache_key(servers[ai_log[k].idx])

\* The lookups of the run that missed the cache with key c: the LLM calls for c
MissesOf(c) == {k \in DOMAIN ai_log : ~ai_log[k].hit /\ LookupKey(k) = c}

\* The key of the k-th lookup was in the cache when the lookup was made
WasCached(k) ==
    \/ LookupKey(k) \in DOMAIN load_ai_cache(cache_file)
    \/ \E j \in 1..(k - 1) : j \in MissesOf(LookupKey(k))

\* What C20 says of the lookups: in the filter loop a lookup whose key is in
\* the cache does not call the LLM and uses the cached result, one whose key
\* is not calls it once and stores the result under the key, whatever the
\* decision
CacheLookups ==
    sync_pc = "filter" =>
        /\ \A k \in DOMAIN ai_log :
              /\ ai_log[k].hit <=> WasCached(k)
              /\ LookupKey(k) \in DOMAIN ai_cache
              /\ ai_log[k].result = ai_cache[LookupKey(k)]
              /\ Cardinality(MissesOf(LookupKey(k))) =
                    (IF LookupKey(k) \in DOMAIN load_ai_cache(cache_file) THEN 0 ELSE 1)
        /\ cache_misses = Cardinality({k \in DOMAIN ai_log : ~ai_log[k].hit})
        /\ \A c \in DOMAIN load_ai_cache(cache_file) :
              c \in DOMAIN ai_cache /\ ai_cache[c] = load_ai_cache(cache_file)[c]

\* The number of times the cache file was written in the run
CacheWrites == Cardinality({k \in DOMAIN io_log : io_log[k] = "write_cache"})

FilterCompleted == sync_pc \in {"filter", "issues", "exited"} /\ fi > Len(servers)

MaxKeys == 2
KeyOrder == [k \in 1..MaxKeys |-> k]
SavedDicts == SUBSET (1..MaxKeys)

\* Chunks the file object holds before it writes them through
BufChunks == 2

\* No file at the path
AbsentFile == [exists |-> FALSE, chunks |-> <<>>]

\* json.dump(d, f, indent=2): the opening brace, one chunk per item, the
\* closing brace
Chunks(d) ==
    LET items == SelectSeq(KeyOrder, LAMBDA k : k \in d)
    IN  <<[text |-> "{", key |-> 0]>>
        \o [i \in DOMAIN items |-> [text |-> "item", key |-> items[i]]]
        \o <<[text |-> "}", key |-> 0]>>

\* The file holding the whole document of d
DocFile(d) == [exists |-> TRUE, chunks |-> Chunks(d)]

SaveTargets == {"selected_server.json", "ai_categorization_cache.json"}

SaveInit ==
    /\ save_target \in SaveTargets
    /\ save_new \in SavedDicts
    /\ save_prev \in {AbsentFile} \cup {DocFile(d) : d \in SavedDicts}
    /\ disk = save_prev
    /\ buffer = <<>>
    /\ wpos = 0
    /\ save_pc = "makedirs"
    /\ save_err = FALSE

\* line 398 / 446: os.makedirs(..., exist_ok=True) succeeds
SaveMakedirs ==
    /\ save_pc = "makedirs"
    /\ save_pc' = "open"
    /\ UNCHANGED <<save_target, save_new, save_prev, disk, buffer, wpos, save_err>>
    /\ UNCHANGED SaveFrame

\* line 398 / 446 raises; lines 402-403 / 450-451 print the error
SaveMakedirsRaise ==
    /\ save_pc = "makedirs"
    /\ save_pc' = "returned"
    /\ save_err' = TRUE
    /\ UNCHANGED <<save_target, save_new, save_prev, disk, buffer, wpos>>
    /\ UNCHANGED SaveFrame

\* line 399 / 447: open(path, 'w') creates or truncates the file
SaveOpen ==
    /\ save_pc = "open"
    /\ disk' = [exists |-> TRUE, chunks |-> <<>>]
    /\ save_pc' = "dump"
    /\ UNCHANGED <<save_target, save_new, save_prev, buffer, wpos, save_err>>
    /\ UNCHANGED SaveFrame

\* line 399 / 447 raises (no permission): the file is not touched
SaveOpenRaise ==
    /\ save_pc = "open"
    /\ save_pc' = "returned"
    /\ save_err' = TRUE
    /\ UNCHANGED <<save_target, save_new, save_prev, disk, buffer, wpos>>
    /\ UNCHANGED SaveFrame

\* line 400 / 448: json.dump writes its next chunk; a full buffer goes to disk
SaveWrite ==
    /\ save_pc = "dump"
    /\ wpos < Len(Chunks(save_new))
    /\ wpos' = wpos + 1
    /\ LET b == Append(buffer, Chunks(save_new)[wpos + 1])
       IN  IF Len(b) >= BufChunks
           THEN /\ disk' = [disk EXCEPT !.chunks = @ \o b]
                /\ buffer' = <<>>
           ELSE /\ buffer' = b
                /\ UNCHANGED disk
    /\ UNCHANGED <<save_target, save_new, save_prev, save_pc, save_err>>
    /\ UNCHANGED SaveFrame

\* line 400 / 448 raises at the next chunk (a string the encoding refuses, a
\* full disk); leaving the with block closes the file, which writes the
\* buffer; lines 402-403 / 450-451 print the error
SaveWriteRaise ==
    /\ save_pc = "dump"
    /\ wpos < Len(Chunks(save_new))
    /\ disk' = [disk EXCEPT !.chunks = @ \o buffer]
    /\ buffer' = <<>>
    /\ save_pc' = "returned"
    /\ save_err' = TRUE
    /\ UNCHANGED <<save_target, save_new, save_prev, wpos>>
    /\ UNCHANGED SaveFrame

\* json.dump is through; leaving the with block closes the file; line
\* 401 / 449 prints the success line
SaveClose ==
    /\ save_pc = "dump"
    /\ wpos = Len(Chunks(save_new))
    /\ disk' = [disk EXCEPT !.chunks = @ \o buffer]
    /\ buffer' = <<>>
    /\ save_pc' = "returned"
    /\ UNCHANGED <<save_target, save_new, save_prev, wpos, save_err>>
    /\ UNCHANGED SaveFrame

\* The process is killed during the call: what is in the buffer is lost
SaveKilled ==
    /\ save_pc \in {"makedirs", "open", "dump"}
    /\ save_pc' = "killed"
    /\ buffer' = <<>>
    /\ UNCHANGED <<save_target, save_new, save_prev, disk, wpos, save_err>>
    /\ UNCHANGED SaveFrame

SaveNext ==
    \/ SaveMakedirs
    \/ SaveMakedirsRaise
    \/ SaveOpen
    \/ SaveOpenRaise
    \/ SaveWrite
    \/ SaveWriteRaise
    \/ SaveClose
    \/ SaveKilled

SaveOff ==
    /\ save_target = "selected_server.json"
    /\ save_new = {}
    /\ save_prev = AbsentFile
    /\ disk = AbsentFile
    /\ buffer = <<>>
    /\ wpos = 0
    /\ save_pc = "off"
    /\ save_err = FALSE

\* C5: the rewrite of each cache file is atomic: when the call has returned
\* or the process was killed during it, the file holds the complete previous
\* content or the complete new content, never an empty or partial document.
C5_AsStated ==
    save_pc \in {"returned", "killed"} =>
        \/ disk = save_prev
        \/ disk = DocFile(save_new)

(***************************************************************************)
(* get-env-requirements.py: one run                                        *)
(***************************************************************************)

MaxVars == 2
EnvKeys == {"TOKEN", "REGION"}
Packages == {<<"d", "o">>, <<"m", "-", "p">>}

\* An item of the env list: a mapping with or without "key"
EnvVarItems ==
    [has_key : {TRUE}, key : EnvKeys, required : BOOLEAN]
        \cup {[has_key |-> FALSE, key |-> "", required |-> TRUE]}

\* What the "env" entry of the mapping is
EnvEntries ==
    {[kind |-> k, items |-> <<>>] : k \in {"absent", "null"}}
        \cup {[kind |-> "list", items |-> v] :
                 v \in UNION {[1..n -> EnvVarItems] : n \in 0..MaxVars}}

\* What yaml.safe_load makes of the file
Contents ==
    {[kind |-> k, env |-> [kind |-> "absent", items |-> <<>>]] :
         k \in {"unreadable", "null", "list"}}
        \cup {[kind |-> "mapping", env |-> e] : e \in EnvEntries}

NoContent == [kind |-> "none", env |-> [kind |-> "absent", items |-> <<>>]]

\* str.replace('-', '_')
ReplaceDash(str) == [i \in DOMAIN str |-> IF str[i] = "-" THEN "_" ELSE str[i]]

\* lines 28-32
possible_files(package_name) ==
    << package_name \o <<".yaml">>,
       package_name \o <<".yml">>,
       ReplaceDash(package_name) \o <<".yaml">> >>

NoPath == <<>>

\* lines 34-38: the first of the possible files that exists
yaml_path(package_name, files) ==
    LET found == SelectSeq(possible_files(package_name), LAMBDA f : f \in files)
    IN  IF found = <<>> THEN NoPath ELSE found[1]

NotFoundResult(package_name) ==
    [raised |-> FALSE, package |-> package_name, found |-> FALSE,
     yaml_file |-> NoPath, required_env_vars |-> <<>>]

RaisedResult(package_name) ==
    [raised |-> TRUE, package |-> package_name, found |-> FALSE,
     yaml_file |-> NoPath, required_env_vars |-> <<>>]

\* lines 60-70 run without an exception
LoadsCleanly(content) ==
    /\ content.kind = "mapping"
    /\ content.env.kind # "null"
    /\ \A i \in DOMAIN content.env.items : content.env.items[i].has_key

\* line 77
RequiredKeys(items) ==
    LET req == SelectSeq(items, LAMBDA v : v.required)
    IN  [i \in DOMAIN req |-> req[i].key]

\* lines 13-78; raised stands for an exception that leaves the function
get_env_requirements(package_name, files, content) ==
    IF yaml_path(package_name, files) = NoPath THEN NotFoundResult(package_name)
    ELSE IF content.kind = "unreadable" THEN NotFoundResult(package_name)
    ELSE IF ~LoadsCleanly(content) THEN RaisedResult(package_name)
    ELSE [raised |-> FALSE, package |-> package_name, found |-> TRUE,
          yaml_file |-> yaml_path(package_name, files),
          required_env_vars |-> RequiredKeys(content.env.items)]

\* lines 93-100
missing_env_vars(requirements, environ) ==
    SelectSeq(requirements.required_env_vars, LAMBDA k : k \notin environ)

\* line 106
can_validate(requirements, environ) ==
    \/ Len(missing_env_vars(requirements, environ)) = 0
    \/ Len(requirements.required_env_vars) = 0

\* lines 128-133
EnvExitCode(result, environ) ==
    IF ~result.found THEN 2
    ELSE IF ~can_validate(result, environ) THEN 1
    ELSE 0

NoResult == [raised |-> FALSE, package |-> <<>>, found |-> FALSE,
             yaml_file |-> NoPath, required_env_vars |-> <<>>]

EnvInit ==
    /\ env_argc \in 1..3
    /\ env_pkg \in Packages
    /\ env_files \in SUBSET {possible_files(env_pkg)[i] : i \in 1..3}
    /\ env_environ \in SUBSET EnvKeys
    /\ env_content = NoContent
    /\ env_result = NoResult
    /\ env_printed = FALSE
    /\ env_pc = "start"
    /\ env_exit = NoExit

\* lines 111-114
EnvUsage ==
    /\ env_pc = "start"
    /\ env_argc # 2
    /\ env_pc' = "exited"
    /\ env_exit' = 1
    /\ UNCHANGED <<env_argc, env_pkg, env_files, env_environ, env_content,
                   env_result, env_printed>>
    /\ UNCHANGED EnvFrame

\* line 119, the call returns
EnvGetRequirements ==
    /\ env_pc = "start"
    /\ env_argc = 2
    /\ \E c \in Contents :
          /\ env_content' = IF yaml_path(env_pkg, env_files) = NoPath
                            THEN NoContent ELSE c
          /\ ~get_env_requirements(env_pkg, env_files, env_content').raised
          /\ env_result' = get_env_requirements(env_pkg, env_files, env_content')
    /\ env_pc' = "got"
    /\ UNCHANGED <<env_argc, env_pkg, env_files, env_environ, env_printed, env_exit>>
    /\ UNCHANGED EnvFrame

\* line 119, lines 60-70 raise: the traceback is printed and the
\* interpreter exits with 1
EnvGetRequirementsRaise ==
    /\ env_pc = "start"
    /\ env_argc = 2
    /\ yaml_path(env_pkg, env_files) # NoPath
    /\ \E c \in Contents :
          /\ get_env_requirements(env_pkg, env_files, c).raised
          /\ env_content' = c
    /\ env_pc' = "exited"
    /\ env_exit' = 1
    /\ UNCHANGED <<env_argc, env_pkg, env_files, env_environ, env_result, env_printed>>
    /\ UNCHANGED EnvFrame

\* lines 122-125
EnvPrint ==
    /\ env_pc = "got"
    /\ env_printed' = TRUE
    /\ env_pc' = "printed"
    /\ UNCHANGED <<env_argc, env_pkg, env_files, env_environ, env_content,
                   env_result, env_exit>>
    /\ UNCHANGED EnvFrame

\* lines 128-133
EnvExit ==
    /\ env_pc = "printed"
    /\ env_exit' = EnvExitCode(env_result, env_environ)
    /\ env_pc' = "exited"
    /\ UNCHANGED <<env_argc, env_pkg, env_files, env_environ, env_content,
                   env_result, env_printed>>
    /\ UNCHANGED EnvFrame

EnvNext ==
    \/ EnvUsage
    \/ EnvGetRequirements
    \/ EnvGetRequirementsRaise
    \/ EnvPrint
    \/ EnvExit

EnvOff ==
    /\ env_argc = 0
    /\ env_pkg = <<>>
    /\ env_files = {}
    /\ env_environ = {}
    /\ env_content = NoContent
    /\ env_result = NoResult
    /\ env_printed = FALSE
    /\ env_pc = "off"
    /\ env_exit = NoExit

\* A catalog YAML file for the package is there and can be read
EnvFileRead ==
    /\ \E i \in 1..3 : possible_files(env_pkg)[i] \in env_files
    /\ env_content.kind # "unreadable"

\* The file declares a required variable that the environment lacks
EnvRequiredMissing ==
    \E i \in DOMAIN env_content.env.items :
        /\ env_content.env.items[i].required
        /\ env_content.env.items[i].key \notin env_environ

\* C9: the script exits 2 when no catalog YAML file for the package is found
\* or the found file cannot be read, 1 when the file is found and a required
\* environment variable is missing, 0 otherwise, and 1 with a wrong number of
\* arguments; in the first three cases the JSON result is printed before.
C9_AsStated ==
    env_pc = "exited" =>
        IF env_argc # 2 THEN env_exit = 1
        ELSE /\ env_printed
             /\ env_exit = IF ~EnvFileRead THEN 2
                           ELSE IF EnvRequiredMissing THEN 1
                           ELSE 0

(***************************************************************************)
(* ai-analyze-tools.py: one run                                            *)
(***************************************************************************)

MaxToolNames == 2
ToolNames == 1..MaxToolNames

\* A tools file: one json.load does not read, one that holds a JSON array,
\* or one that holds an object, with or without "tools"
ToolFiles ==
    {[kind |-> k, tools |-> {}] : k \in {"unreadable", "array", "no_tools"}}
        \cup {[kind |-> "object", tools |-> t] : t \in SUBSET ToolNames}

\* lines 19-27: the parsed document, {} when the file cannot be loaded
load_tools_json(file) ==
    IF file.kind = "unreadable" THEN [kind |-> "no_tools", tools |-> {}] ELSE file

\* line 32 raises on a document that has no get
ExtractRaises(tools_data) == tools_data.kind = "array"

\* lines 30-43: name, description and input schema of each tool
extract_tools_info(tools_data) ==
    IF tools_data.kind = "object"
    THEN {[name |-> t, description |-> "", input_schema |-> "{}"] : t \in tools_data.tools}
    ELSE {}

\* Mutant of analyze_with_openai: the API key is not looked at
analyze_with_openai_NoKeyCheck(has_openai, key, api_ok) ==
    IF ~has_openai THEN "OpenAI library not installed"
    ELSE IF ~api_ok THEN "OpenAI API call failed"
    ELSE ""

\* lines 50-55 and 108-123: the reason analyze_with_openai raises, "" when it
\* returns the analysis
analyze_with_openai(has_openai, key, api_ok) ==
    IF ~has_openai THEN "OpenAI library not installed"
    ELSE IF ~key THEN "OPENAI_API_KEY not found in environment"
    ELSE IF ~api_ok THEN "OpenAI API call failed"
    ELSE ""

AnalyzeInit ==
    /\ an_argc \in 5..7
    /\ HAS_OPENAI \in BOOLEAN
    /\ an_key \in BOOLEAN
    /\ an_api_ok \in BOOLEAN
    /\ old_json \in ToolFiles
    /\ new_json \in ToolFiles
    /\ old_tools = {}
    /\ new_tools = {}
    /\ an_stdout = <<>>
    /\ an_stderr = <<>>
    /\ an_pc = "start"
    /\ an_exit = NoExit

\* lines 127-130
AnalyzeUsage ==
    /\ an_pc = "start"
    /\ an_argc # 6
    /\ an_stderr' = Append(an_stderr, "Usage")
    /\ an_pc' = "exited"
    /\ an_exit' = 1
    /\ UNCHANGED <<an_argc, HAS_OPENAI, an_key, an_api_ok, old_json, new_json,
                   old_tools, new_tools, an_stdout>>
    /\ UNCHANGED AnalyzeFrame

\* What load_tools_json prints for the two files
LoadErrors ==
    (IF old_json.kind = "unreadable" THEN <<"Error loading">> ELSE <<>>)
        \o (IF new_json.kind = "unreadable" THEN <<"Error loading">> ELSE <<>>)

\* lines 132-143
AnalyzeLoad ==
    /\ an_pc = "start"
    /\ an_argc = 6
    /\ ~ExtractRaises(load_tools_json(old_json))
    /\ ~ExtractRaises(load_tools_json(new_json))
    /\ old_tools' = extract_tools_info(load_tools_json(old_json))
    /\ new_tools' = extract_tools_info(load_tools_json(new_json))
    /\ an_stderr' = an_stderr \o LoadErrors
    /\ an_pc' = "loaded"
    /\ UNCHANGED <<an_argc, HAS_OPENAI, an_key, an_api_ok, old_json, new_json,
                   an_stdout, an_exit>>
    /\ UNCHANGED AnalyzeFrame

\* lines 132-143, line 32 raises: the traceback is printed and the
\* interpreter exits with 1
AnalyzeLoadRaise ==
    /\ an_pc = "start"
    /\ an_argc = 6
    /\ \/ ExtractRaises(load_tools_json(old_json))
       \/ ExtractRaises(load_tools_json(new_json))
    /\ an_stderr' = an_stderr \o LoadErrors \o <<"Traceback">>
    /\ an_pc' = "exited"
    /\ an_exit' = 1
    /\ UNCHANGED <<an_argc, HAS_OPENAI, an_key, an_api_ok, old_json, new_json,
                   old_tools, new_tools, an_stdout>>
    /\ UNCHANGED AnalyzeFrame

\* lines 146-150
AnalyzeOk ==
    /\ an_pc = "loaded"
    /\ analyze_with_openai(HAS_OPENAI, an_key, an_api_ok) = ""
    /\ an_stdout' = Append(an_stdout, "analysis")
    /\ an_pc' = "exited"
    /\ an_exit' = 0
    /\ UNCHANGED <<an_argc, HAS_OPENAI, an_key, an_api_ok, old_json, new_json,
                   old_tools, new_tools, an_stderr>>
    /\ UNCHANGED AnalyzeFrame

\* lines 151-153
AnalyzeFail ==
    /\ an_pc = "loaded"
    /\ analyze_with_openai(HAS_OPENAI, an_key, an_api_ok) # ""
    /\ an_stderr' = Append(an_stderr, "AI analysis failed")
    /\ an_pc' = "exited"
    /\ an_exit' = 1
    /\ UNCHANGED <<an_argc, HAS_OPENAI, an_key, an_api_ok, old_json, new_json,
                   old_tools, new_tools, an_stdout>>
    /\ UNCHANGED AnalyzeFrame

AnalyzeNext ==
    \/ AnalyzeUsage
    \/ AnalyzeLoad
    \/ AnalyzeLoadRaise
    \/ AnalyzeOk
    \/ AnalyzeFail

AnalyzeOff ==
    /\ an_argc = 0
    /\ HAS_OPENAI = FALSE
    /\ an_key = FALSE
    /\ an_api_ok = FALSE
    /\ old_json = [kind |-> "unreadable", tools |-> {}]
    /\ new_json = [kind |-> "unreadable", tools |-> {}]
    /\ old_tools = {}
    /\ new_tools = {}
    /\ an_stdout = <<>>
    /\ an_stderr = <<>>
    /\ an_pc = "off"
    /\ an_exit = NoExit

\* C10: when OpenAI is not available (library not installed, OPENAI_API_KEY
\* unset, or the API call fails) the script falls back to a basic comparison
\* of the old and new tool lists, so a comparison is still printed.
C10_AsStated ==
    (an_pc = "exited" /\ an_argc = 6 /\ ~(HAS_OPENAI /\ an_key /\ an_api_ok))
        => an_stdout # <<>>

\* A tools file could not be read: load_tools_json caught the error
SomeToolsFileUnreadable ==
    old_json.kind = "unreadable" \/ new_json.kind = "unreadable"

\* C12, in ai-analyze-tools.py: an error caught at a file read is printed and
\* skipped inside a per-file loop or ends the script at once with a non-zero
\* code; the script does not carry on with substitute data and finish with
\* exit code 0.
C12_AsStated ==
    (an_pc = "exited" /\ an_argc = 6 /\ SomeToolsFileUnreadable) => an_exit # 0

LinterStart == LintInit /\ FetchOff /\ SyncOff /\ SaveOff /\ EnvOff /\ AnalyzeOff
SpecLinter == LinterStart /\ [][LintNext]_vars

\* One call of fetch_modelcontextprotocol_registry_servers
FetchStart == FetchInit /\ LintOff /\ SyncOff /\ SaveOff /\ EnvOff /\ AnalyzeOff
SpecFetch == FetchStart /\ [][FetchNext]_vars

\* One call of fetch_modelcontextprotocol_registry_servers in which every
\* request is answered (timeout=30 ends a request that is not)
SpecFetchLive == FetchStart /\ [][FetchNext]_vars /\ WF_vars(FetchNext)

\* One run of auto_sync_workflow.py
SyncStart == SyncInit /\ LintOff /\ FetchOff /\ SaveOff /\ EnvOff /\ AnalyzeOff
SpecSync == SyncStart /\ [][SyncNext]_vars

\* Up to MaxRuns runs of auto_sync_workflow.py, one after the other
SyncRunsStart == SyncRunsInit /\ LintOff /\ FetchOff /\ SaveOff /\ EnvOff /\ AnalyzeOff
SpecSyncRuns == SyncRunsStart /\ [][SyncRunsNext]_vars

\* One call of save_selected_servers or save_ai_cache
SaveStart == SaveInit /\ LintOff /\ FetchOff /\ SyncOff /\ EnvOff /\ AnalyzeOff
SpecSave == SaveStart /\ [][SaveNext]_vars

\* One run of get-env-requirements.py
EnvStart == EnvInit /\ LintOff /\ FetchOff /\ SyncOff /\ SaveOff /\ AnalyzeOff
SpecEnv == EnvStart /\ [][EnvNext]_vars

\* One run of ai-analyze-tools.py
AnalyzeStart == AnalyzeInit /\ LintOff /\ FetchOff /\ SyncOff /\ SaveOff /\ EnvOff
SpecAnalyze == AnalyzeStart /\ [][AnalyzeNext]_vars

====
